---- MODULE Spec2Model ----
(***************************************************************************)
(* Account name / code uniqueness of models/account_account.py             *)
(* (AccountAccount, _inherit = "account.account").                         *)
(*                                                                         *)
(* The persisted table is the sequence `accounts` (an account's id is its  *)
(* index).  An account is a record [name, company_ids, code]: the name is  *)
(* a string ("" when unset), company_ids a set of company ids, the code a  *)
(* sequence of decimal digits (<<>> when unset).  `last` is the last call  *)
(* with its arguments and what it raised or returned; `tx` holds the       *)
(* transactions that are running create concurrently.                      *)
(***************************************************************************)
EXTENDS Integers, Sequences, FiniteSets, TLC

VARIABLES accounts, last, tx

vars == <<accounts, last, tx>>

(***************************************************************************)
(* Companies and their hierarchy (res.company.parent_id): 1 is the root,   *)
(* 2 and 4 are children of 1, 3 is a child of 2.  0 stands for no parent.  *)
(***************************************************************************)
Companies == {1, 2, 3, 4}

Parent == <<0, 1, 2, 1>>

RECURSIVE AncestorsOrSelf(_)
AncestorsOrSelf(c) ==
    IF Parent[c] = 0 THEN {c} ELSE {c} \cup AncestorsOrSelf(Parent[c])

DescendantsOrSelf(c) == {d \in Companies : c \in AncestorsOrSelf(d)}

\* company.root_id
RECURSIVE root_id(_)
root_id(c) == IF Parent[c] = 0 THEN c ELSE root_id(Parent[c])

\* The domain leaf ('company_ids', 'parent_of', c): the record belongs to c
\* or to one of its ancestors.
parent_of(company_ids, c) == company_ids \cap AncestorsOrSelf(c) # {}

\* The domain leaf ('company_ids', 'child_of', c): the record belongs to c
\* or to one of its descendants.
child_of(company_ids, c) == company_ids \cap DescendantsOrSelf(c) # {}

\* '|', ('company_ids', 'parent_of', c), ('company_ids', 'child_of', c)
in_hierarchy(company_ids, c) ==
    parent_of(company_ids, c) \/ child_of(company_ids, c)

NoTx == [t \in {} |-> 0]

(***************************************************************************)
(* _search_new_account_name                                                *)
(***************************************************************************)
\* range(99)
ProbeRange == 99

\* The cache argument: [given |-> FALSE, names |-> {}] is cache=None.
NoCache == [given |-> FALSE, names |-> {}]

GivenCache(S) == [given |-> TRUE, names |-> S]

seed_cache_empty(start_name, cache) == cache.names

\* if cache is None: cache = {start_name}
seed_cache(start_name, cache) ==
    IF ~cache.given THEN {start_name} ELSE cache.names

\* name_is_available: not in the cache and no account of that name in a
\* parent or child company of the active company (sudo search_count).
name_is_available(new_name, cache, company, db) ==
    /\ new_name \notin cache
    /\ ~\E i \in 1..Len(db) :
          /\ db[i].name = new_name
          /\ in_hierarchy(db[i].company_ids, company)

\* f'{start_name}.copy{num + 1 if num else ""}'
fallback_name(start_name, num) ==
    start_name \o ".copy" \o (IF num # 0 THEN ToString(num + 1) ELSE "")

\* The for loop over range(stop): the first num whose fallback name is
\* available returns it; the loop running out raises the UserError.
probe_names(start_name, stop, cache, company, db) ==
    LET hits == {num \in 0..(stop - 1) :
                    name_is_available(fallback_name(start_name, num),
                                      cache, company, db)}
    IN  IF hits = {}
        THEN [error |-> "Cannot generate an unused account name.", name |-> ""]
        ELSE [error |-> "",
              name |-> fallback_name(start_name,
                           CHOOSE num \in hits : \A other \in hits : num <= other)]

fallback_loop_short(start_name, cache, company, db) ==
    probe_names(start_name, ProbeRange - 1, cache, company, db)

\* for num in range(99): ... ; raise UserError
fallback_loop(start_name, cache, company, db) ==
    probe_names(start_name, ProbeRange, cache, company, db)

_search_new_account_name(start_name, cacheArg, company, db) ==
    LET cache == seed_cache(start_name, cacheArg)
    IN  IF name_is_available(start_name, cache, company, db)
        THEN [error |-> "", name |-> start_name]
        ELSE fallback_loop(start_name, cache, company, db)

(***************************************************************************)
(* _ensure_name_is_unique, on the recordset ids (a sequence of account     *)
(* ids, in recordset order) and the table db it reads.  The result is the  *)
(* ValidationError raised, or error = "" when the check passes.            *)
(***************************************************************************)
IdSet(ids) == {ids[k] : k \in 1..Len(ids)}

NameNotSet == "The name must be set for every company to which this account belongs."

DuplicateNames == "Account names must be unique."

Passed == [error |-> "", company |-> 0, names |-> {}]

\* Check 1: some account has no name in one of its companies' root company
\* (the name is one value per account, whatever the company context).
name_not_set(ids, db) ==
    \E k \in 1..Len(ids) :
        \E company \in {root_id(c) : c \in db[ids[k]].company_ids} :
            db[ids[k]].name = ""

\* The keys of account_ids_to_check_by_company in insertion order: accounts
\* in recordset order, each account's companies in ascending id.
first_account(company, ids, db) ==
    CHOOSE k \in 1..Len(ids) :
        /\ company \in db[ids[k]].company_ids
        /\ \A j \in 1..(k - 1) : company \notin db[ids[j]].company_ids

comes_before(c, d, ids, db) ==
    \/ first_account(c, ids, db) < first_account(d, ids, db)
    \/ first_account(c, ids, db) = first_account(d, ids, db) /\ c < d

companies_to_check(ids, db) ==
    LET keys == UNION {db[ids[k]].company_ids : k \in 1..Len(ids)}
        nth(j) == CHOOSE c \in keys :
                      Cardinality({d \in keys : comes_before(d, c, ids, db)}) = j - 1
    IN  [j \in 1..Cardinality(keys) |-> nth(j)]

\* account_ids_to_check_by_company[company]
account_ids_for(company, ids, db) ==
    {i \in IdSet(ids) : company \in db[i].company_ids}

\* Check 2.1: the names that more than one account of the recordset has in
\* the company.
duplicates_in_recordset(company, ids, db) ==
    {n \in {db[i].name : i \in account_ids_for(company, ids, db)} :
        Cardinality({i \in account_ids_for(company, ids, db) : db[i].name = n}) > 1}

duplicates_in_database_unsearched(company, ids, db) == {}

\* Check 2.2: search_fetch of the accounts outside the recordset that have
\* one of the names, in a parent or child company: their names.
duplicates_in_database(company, ids, db) ==
    {db[i].name : i \in {j \in 1..Len(db) :
        /\ db[j].name \in {db[a].name : a \in account_ids_for(company, ids, db)}
        /\ j \notin IdSet(ids)
        /\ in_hierarchy(db[j].company_ids, company)}}

duplicate_names_of_both_checks(company, ids, db) ==
    duplicates_in_recordset(company, ids, db)
        \cup duplicates_in_database(company, ids, db)

\* duplicate_names for one company: Check 2.1, and Check 2.2 only when
\* Check 2.1 found nothing (elif).
duplicate_names(company, ids, db) ==
    IF duplicates_in_recordset(company, ids, db) # {}
    THEN duplicates_in_recordset(company, ids, db)
    ELSE duplicates_in_database(company, ids, db)

\* Check 2: the first company, in iteration order, with duplicate names
\* raises.
check_duplicates(ids, db) ==
    LET order == companies_to_check(ids, db)
        hits == {j \in 1..Len(order) : duplicate_names(order[j], ids, db) # {}}
        j0 == CHOOSE j \in hits : \A o \in hits : j <= o
    IN  IF hits = {} THEN Passed
        ELSE [error |-> DuplicateNames, company |-> order[j0],
              names |-> duplicate_names(order[j0], ids, db)]

_ensure_name_is_unique_duplicates_first(ids, db) ==
    IF check_duplicates(ids, db) # Passed THEN check_duplicates(ids, db)
    ELSE IF name_not_set(ids, db)
         THEN [error |-> NameNotSet, company |-> 0, names |-> {}]
         ELSE Passed

_ensure_name_is_unique(ids, db) ==
    IF name_not_set(ids, db)
    THEN [error |-> NameNotSet, company |-> 0, names |-> {}]
    ELSE check_duplicates(ids, db)

(***************************************************************************)
(* _ensure_name_is_unique as a function of its inputs: a persisted table   *)
(* of CheckAccounts accounts, the recordset being its first k accounts.    *)
(***************************************************************************)
CheckAccounts == 4

Names == {"", "Cash", "Bank"}

\* A company alone, and an account shared by two unrelated companies.
CompanySets == {{1}, {2}, {4}, {3, 4}}

\* Named accounts in every company set, unnamed accounts in two of them.
AccountShapes ==
    {[name |-> n, company_ids |-> cs, code |-> <<>>] :
        n \in Names \ {""}, cs \in CompanySets}
    \cup {[name |-> "", company_ids |-> cs, code |-> <<>>] : cs \in {{2}, {3, 4}}}

InitCheck ==
    /\ accounts \in [1..CheckAccounts -> AccountShapes]
    /\ last = [op |-> "init"]
    /\ tx = NoTx

CheckNames(k) ==
    /\ last.op = "init"
    /\ LET ids == [j \in 1..k |-> j]
           res == _ensure_name_is_unique(ids, accounts)
       IN  last' = [op |-> "check", ids |-> ids, error |-> res.error,
                    company |-> res.company, names |-> res.names]
    /\ UNCHANGED <<accounts, tx>>

NextCheck == \E k \in 1..CheckAccounts : CheckNames(k)

SpecCheck == InitCheck /\ [][NextCheck]_vars

(***************************************************************************)
(* The sibling code allocator and code check of account.account, which     *)
(* this file calls and does not define: modelled after the name allocator  *)
(* and the name check, with numeric suffixes instead of .copyN.            *)
(***************************************************************************)
CodeProbes == 99

RECURSIVE code_value(_)
code_value(code) ==
    IF code = <<>> THEN 0
    ELSE code_value(SubSeq(code, 1, Len(code) - 1)) * 10 + code[Len(code)]

code_of_value(n, width) == [i \in 1..width |-> (n \div (10 ^ (width - i))) % 10]

code_is_available(new_code, cache, company, db) ==
    /\ new_code \notin cache
    /\ ~\E i \in 1..Len(db) :
          /\ db[i].code = new_code
          /\ in_hierarchy(db[i].company_ids, company)

\* The numeric suffixes in increasing order: the first available code of
\* the same width, or the allocator's error when the probes run out.
RECURSIVE probe_codes(_, _, _, _, _, _)
probe_codes(n, k, width, cache, company, db) ==
    IF k > CodeProbes \/ n + k >= 10 ^ width
    THEN [error |-> "Cannot generate an unused account code.", code |-> <<>>]
    ELSE IF code_is_available(code_of_value(n + k, width), cache, company, db)
         THEN [error |-> "", code |-> code_of_value(n + k, width)]
         ELSE probe_codes(n, k + 1, width, cache, company, db)

_search_new_account_code(start_code, cache, company, db) ==
    IF code_is_available(start_code, cache, company, db)
    THEN [error |-> "", code |-> start_code]
    ELSE probe_codes(code_value(start_code), 1, Len(start_code),
                     cache, company, db)

CodeNotSet == "The code must be set for every company to which this account belongs."

DuplicateCodes == "Account codes must be unique."

_ensure_code_is_unique(ids, db) ==
    IF \E i \in IdSet(ids) : db[i].company_ids # {} /\ db[i].code = <<>>
    THEN CodeNotSet
    ELSE IF \E c \in UNION {db[i].company_ids : i \in IdSet(ids)} :
              \E i \in account_ids_for(c, ids, db) :
                 \/ \E j \in account_ids_for(c, ids, db) :
                       i # j /\ db[i].code = db[j].code
                 \/ \E j \in 1..Len(db) :
                       /\ j \notin IdSet(ids)
                       /\ db[j].code = db[i].code
                       /\ in_hierarchy(db[j].company_ids, c)
         THEN DuplicateCodes
         ELSE ""

(***************************************************************************)
(* create.  A value map is a record with the keys it carries, among name,  *)
(* company_ids (a sequence of company ids), prefix and code_digits, code,  *)
(* code_mapping_ids (a sequence of commands <<command, id, values>>).      *)
(***************************************************************************)
RangeOf(seq) == {seq[k] : k \in 1..Len(seq)}

\* lambda v: v.get('company_ids', [])
company_key(vals) ==
    IF "company_ids" \in DOMAIN vals THEN vals.company_ids ELSE <<>>

\* itertools.groupby: the runs of consecutive value maps with equal keys.
RECURSIVE groupby(_)
groupby(vals_list) ==
    IF vals_list = <<>> THEN <<>>
    ELSE LET rest == groupby(Tail(vals_list))
         IN  IF rest # <<>> /\ company_key(Head(rest[1])) = company_key(Head(vals_list))
             THEN <<(<<Head(vals_list)>> \o rest[1])>> \o Tail(rest)
             ELSE <<(<<Head(vals_list)>>)>> \o rest

\* The companies of a group: the active company first when it is one of
\* them or when there is none.
group_companies(company_ids, active) ==
    IF active \in RangeOf(company_ids) \/ company_ids = <<>>
    THEN <<active>> \o SelectSeq(company_ids, LAMBDA c : c # active)
    ELSE company_ids

\* str.ljust(width, '0')
ljust(str, width) ==
    IF Len(str) >= width THEN str
    ELSE str \o [i \in 1..(width - Len(str)) |-> 0]

start_code_padded_to_digits(prefix, digits) ==
    IF Len(prefix) < digits THEN ljust(prefix, digits) ELSE prefix

\* prefix.ljust(digits - 1, '0') + '1' if len(prefix) < digits else prefix
start_code(prefix, digits) ==
    IF Len(prefix) < digits THEN ljust(prefix, digits - 1) \o <<1>> ELSE prefix

cache_add_nothing(cache, code) == cache

\* cache.add(vals['code'])
cache_add(cache, code) == cache \cup {code}

Command_CREATE == 0

\* The code of the first CREATE command of code_mapping_ids for the group's
\* first company, <<>> when there is none.
RECURSIVE mapped_code(_, _)
mapped_code(commands, company) ==
    IF commands = <<>> THEN <<>>
    ELSE IF /\ Head(commands)[1] = Command_CREATE
            /\ Head(commands)[3].company_id = company
         THEN Head(commands)[3].code
         ELSE mapped_code(Tail(commands), company)

\* if 'code' not in vals: prepopulate the code from code_mapping_ids
prepopulated_code(vals, company) ==
    IF "code" \in DOMAIN vals THEN vals.code
    ELSE IF "code_mapping_ids" \in DOMAIN vals
         THEN mapped_code(vals.code_mapping_ids, company)
         ELSE <<>>

\* The loop over one group's value maps: the codes they end with, or the
\* allocator's error.  db is the table the allocator searches.
RECURSIVE group_codes(_, _, _, _)
group_codes(group, cache, company, db) ==
    IF group = <<>> THEN [error |-> "", codes |-> <<>>]
    ELSE LET vals == Head(group) IN
         IF "prefix" \in DOMAIN vals
         THEN LET found == _search_new_account_code(
                               start_code(vals.prefix, vals.code_digits),
                               cache, company, db)
                  rest == group_codes(Tail(group), cache_add(cache, found.code),
                                      company, db)
              IN  IF found.error # "" THEN [error |-> found.error, codes |-> <<>>]
                  ELSE [error |-> rest.error, codes |-> <<found.code>> \o rest.codes]
         ELSE LET rest == group_codes(Tail(group), cache, company, db)
              IN  [error |-> rest.error,
                   codes |-> <<prepopulated_code(vals, company)>> \o rest.codes]

\* super().create(vals_list_for_company): the new rows, appended to db.  An
\* account created without company_ids belongs to the active company.
new_accounts(group, codes, active) ==
    [k \in 1..Len(codes) |->
        [name |-> IF "name" \in DOMAIN group[k] THEN group[k].name ELSE "",
         company_ids |-> IF company_key(group[k]) = <<>> THEN {active}
                         ELSE RangeOf(company_key(group[k])),
         code |-> codes[k]]]

\* The loop over the groups: each group's codes are allocated against the
\* table holding the groups created before it.
RECURSIVE create_groups(_, _, _)
create_groups(groups, active, db) ==
    IF groups = <<>> THEN [error |-> "", db |-> db, codes |-> <<>>]
    ELSE LET group == Head(groups)
             companies == group_companies(company_key(Head(group)), active)
             coded == group_codes(group, {}, companies[1], db)
         IN  IF coded.error # ""
             THEN [error |-> coded.error, db |-> db, codes |-> coded.codes]
             ELSE LET rest == create_groups(Tail(groups), active,
                                  db \o new_accounts(group, coded.codes, active))
                  IN  [error |-> rest.error, db |-> rest.db,
                       codes |-> coded.codes \o rest.codes]

\* records._ensure_code_is_unique(); records._ensure_name_is_unique()
final_checks(ids, db) ==
    IF _ensure_code_is_unique(ids, db) # ""
    THEN _ensure_code_is_unique(ids, db)
    ELSE _ensure_name_is_unique(ids, db).error

\* The whole of create on the table db: the error raised ("" for none), the
\* table with the new records, their ids and the codes given to them.
create_result(vals_list, active, db) ==
    LET made == create_groups(groupby(vals_list), active, db)
        ids == [k \in 1..(Len(made.db) - Len(db)) |-> Len(db) + k]
    IN  [error |-> IF made.error # "" THEN made.error
                   ELSE final_checks(ids, made.db),
         db |-> made.db, ids |-> ids,
         codes |-> IF made.error # "" THEN <<>> ELSE made.codes]

\* A create call in the active company; an error rolls the call back.
create(vals_list, active) ==
    LET res == create_result(vals_list, active, accounts)
    IN  /\ accounts' = IF res.error = "" THEN res.db ELSE accounts
        /\ last' = [op |-> "create", vals_list |-> vals_list, company |-> active,
                    error |-> res.error, codes |-> res.codes,
                    ids |-> IF res.error = "" THEN res.ids ELSE <<>>]
        /\ UNCHANGED tx

(***************************************************************************)
(* write.  vals carries some of the keys name, company_ids (a set) and     *)
(* code; defer is the context flag defer_account_code_checks.              *)
(***************************************************************************)
\* super().write(vals)
written(ids, vals, db) ==
    [i \in 1..Len(db) |->
        IF i \notin IdSet(ids) THEN db[i]
        ELSE [name |-> IF "name" \in DOMAIN vals THEN vals.name ELSE db[i].name,
              company_ids |-> IF "company_ids" \in DOMAIN vals
                              THEN vals.company_ids ELSE db[i].company_ids,
              code |-> IF "code" \in DOMAIN vals THEN vals.code ELSE db[i].code]]

code_check_wanted(vals, defer) ==
    ~defer /\ {"company_ids", "code", "code_mapping_ids"} \cap DOMAIN vals # {}

\* not context.get('defer_account_code_checks') and {'company_ids', 'name'} & vals.keys()
name_check_wanted(vals, defer) ==
    ~defer /\ {"company_ids", "name"} \cap DOMAIN vals # {}

\* The checks write runs after super().write, in order, and the error of
\* the one that raises.
write_result(ids, vals, defer, db) ==
    LET new == written(ids, vals, db)
        code_error == IF code_check_wanted(vals, defer)
                      THEN _ensure_code_is_unique(ids, new) ELSE ""
        name_ran == code_error = "" /\ name_check_wanted(vals, defer)
        name_error == IF name_ran THEN _ensure_name_is_unique(ids, new).error
                      ELSE ""
    IN  [error |-> IF code_error # "" THEN code_error ELSE name_error,
         db |-> new,
         checks |-> (IF code_check_wanted(vals, defer) THEN <<"code">> ELSE <<>>)
                    \o (IF name_ran THEN <<"name">> ELSE <<>>)]

write(ids, vals, defer) ==
    LET res == write_result(ids, vals, defer, accounts)
    IN  /\ accounts' = IF res.error = "" THEN res.db ELSE accounts
        /\ last' = [op |-> "write", ids |-> ids, vals |-> vals, defer |-> defer,
                    checks |-> res.checks, error |-> res.error]
        /\ UNCHANGED tx

(***************************************************************************)
(* The accounts of a database that starts empty, under create and write    *)
(* calls.                                                                  *)
(***************************************************************************)
MaxAccounts == 2

MaxBatch == 2

ActiveCompanies == {1, 2}

\* Value maps that ask for a generated code: prefix "10", four digits.
NamedVals ==
    {[name |-> n, prefix |-> <<1, 0>>, code_digits |-> 4] : n \in Names}
    \cup {[name |-> n, company_ids |-> key, prefix |-> <<1, 0>>, code_digits |-> 4] :
            n \in Names, key \in {<<1>>, <<2>>, <<4>>}}

BatchesOf(S, n) == UNION {[1..k -> S] : k \in 1..n}

WriteVals ==
    {[name |-> n] : n \in Names}
    \cup {[company_ids |-> cs] : cs \in {{1}, {2}, {4}}}
    \cup {[name |-> n, company_ids |-> cs] : n \in Names \ {""}, cs \in {{1}, {2}}}
    \cup {[code |-> <<1, 0, 0, 1>>]}

\* The recordsets over the persisted accounts, in id order.
Recordsets(n) ==
    {SelectSeq([i \in 1..n |-> i], LAMBDA i : i \in S) : S \in (SUBSET (1..n)) \ {{}}}

Init ==
    /\ accounts = <<>>
    /\ last = [op |-> "init", error |-> ""]
    /\ tx = NoTx

Min(a, b) == IF a <= b THEN a ELSE b

\* A call that raised is rolled back: the calls that follow it start from
\* the table before it, and are explored from the state before it.
NotRolledBack == last.error = ""

\* A create call that the table has room for.
Create ==
    /\ NotRolledBack
    /\ \E vals_list \in BatchesOf(NamedVals, Min(MaxBatch, MaxAccounts - Len(accounts))) :
       \E active \in ActiveCompanies :
           create(vals_list, active)

Write ==
    /\ NotRolledBack
    /\ \E ids \in Recordsets(Len(accounts)) : \E vals \in WriteVals :
       \E defer \in BOOLEAN :
           write(ids, vals, defer)

WriteChecked ==
    /\ NotRolledBack
    /\ \E ids \in Recordsets(Len(accounts)) : \E vals \in WriteVals :
           write(ids, vals, FALSE)

Next == Create \/ Write

\* create and write calls, with or without defer_account_code_checks.
Spec == Init /\ [][Next]_vars

NextChecked == Create \/ WriteChecked

\* create calls, and write calls made without defer_account_code_checks.
SpecChecked == Init /\ [][NextChecked]_vars

(***************************************************************************)
(* create calls whose value maps ask for a code in every way create knows: *)
(* a prefix shorter than the digits, a prefix of the full width, and a     *)
(* code_mapping_ids command for company 1.  Names are distinct.            *)
(***************************************************************************)
CodeAccounts == 3

CodeBatch == 3

AccountName(k) == "Account" \o ToString(k)

CodeShapes ==
    {[prefix |-> <<1, 0>>, code_digits |-> 4],
     [prefix |-> <<1, 0, 0, 1>>, code_digits |-> 4],
     [code_mapping_ids |->
        <<(<<Command_CREATE, 0, [company_id |-> 1, code |-> <<2, 0, 0, 1>>]>>)>>]}

CodeKeys == {<<>>, <<2>>, <<4>>}

\* The shape with its name, and with company_ids unless the key is empty.
CodeVals(shape, key, k) ==
    LET named == shape @@ [name |-> AccountName(k)]
    IN  IF key = <<>> THEN named ELSE named @@ [company_ids |-> key]

CodeBatches(first, most) ==
    UNION {{[k \in 1..n |-> CodeVals(shapes[k], keys[k], first + k)] :
                shapes \in [1..n -> CodeShapes], keys \in [1..n -> CodeKeys]} :
           n \in 1..most}

CreateCoded ==
    /\ NotRolledBack
    /\ \E vals_list \in CodeBatches(Len(accounts),
                                    Min(CodeBatch, CodeAccounts - Len(accounts))) :
       \E active \in ActiveCompanies :
           create(vals_list, active)

NextCode == CreateCoded

SpecCode == Init /\ [][NextCode]_vars

(***************************************************************************)
(* Concurrent create calls, one per transaction.  A transaction reads the  *)
(* committed table and its own rows; nothing in the file takes a lock,     *)
(* retries, or declares a constraint, so a commit only appends the rows.   *)
(* tx[t].pc is the transaction's position in create: "idle" before the     *)
(* call, "created" after the loop over the groups (the rows are inserted,  *)
(* not committed), "checked" after the two final checks passed, "raised"   *)
(* when the call raised, "committed" after the commit.                     *)
(***************************************************************************)
NumTx == 2

Txs == 1..NumTx

TxVals ==
    {[name |-> n, company_ids |-> key, prefix |-> <<1, 0>>, code_digits |-> 4] :
        n \in {"Cash", "Bank"}, key \in {<<1>>, <<2>>, <<4>>}}

IdleTx == [pc |-> "idle", rows |-> <<>>, ids |-> <<>>, seen |-> {}]

InitTx ==
    /\ accounts = <<>>
    /\ last = [op |-> "init", error |-> ""]
    /\ tx = [t \in Txs |-> IdleTx]

\* The ids of the transaction's own rows in the table it reads.
OwnIds(t) == [k \in 1..Len(tx[t].rows) |-> Len(accounts) + k]

\* create, up to the end of the loop over the groups.
TxCreate(t, vals_list, active) ==
    /\ tx[t].pc = "idle"
    /\ LET made == create_groups(groupby(vals_list), active, accounts)
       IN  tx' = [tx EXCEPT ![t] =
                    IF made.error # "" THEN [@ EXCEPT !.pc = "raised"]
                    ELSE [@ EXCEPT !.pc = "created",
                                   !.rows = SubSeq(made.db, Len(accounts) + 1,
                                                   Len(made.db))]]
    /\ UNCHANGED <<accounts, last>>

\* records._ensure_code_is_unique(); records._ensure_name_is_unique()
TxCheck(t) ==
    /\ tx[t].pc = "created"
    /\ tx' = [tx EXCEPT ![t] =
                [@ EXCEPT !.pc = IF final_checks(OwnIds(t), accounts \o tx[t].rows) = ""
                                 THEN "checked" ELSE "raised",
                          !.seen = {u \in Txs : tx[u].pc = "committed"}]]
    /\ UNCHANGED <<accounts, last>>

\* return records, and the transaction commits.
TxCommit(t) ==
    /\ tx[t].pc = "checked"
    /\ accounts' = accounts \o tx[t].rows
    /\ tx' = [tx EXCEPT ![t] = [@ EXCEPT !.pc = "committed", !.ids = OwnIds(t)]]
    /\ UNCHANGED last

NextTx ==
    \/ \E t \in Txs : \E vals \in TxVals : \E active \in ActiveCompanies :
          TxCreate(t, <<vals>>, active)
    \/ \E t \in Txs : TxCheck(t)
    \/ \E t \in Txs : TxCommit(t)

SpecTx == InitTx /\ [][NextTx]_vars

(***************************************************************************)
(* The name allocator as a function of its inputs: the persisted accounts  *)
(* and the caller's cache are drawn so that the first Taken candidates of   *)
(* "Cash" but one (the hole) are used.                                     *)
(***************************************************************************)
MaxTaken == 101

StartNames == {"Cash", "Cash.copy"}

\* The k-th candidate of "Cash": Cash, Cash.copy, Cash.copy2, ...
CashName(k) == IF k = 0 THEN "Cash"
               ELSE IF k = 1 THEN "Cash.copy"
               ELSE "Cash.copy" \o ToString(k)

TakenIndexes(k, hole) == {i \in 0..(k - 1) : i # hole}

\* Few names used, or nearly all of the 100 candidates.
TakenCounts == {k \in 0..MaxTaken : k <= 3 \/ k >= 97}

Holes(k) == {h \in {0, 1, 2, k - 2, k - 1, k} : h >= 0 /\ h <= k}

\* Where the used names sit: all in the cache, all persisted in company c,
\* or alternating.
Placements == {"cache", "db", "mixed"}

InCache(i, placement) ==
    \/ placement = "cache"
    \/ placement = "mixed" /\ i % 2 = 0

PersistedIndexes(k, hole, placement) ==
    {i \in TakenIndexes(k, hole) : ~InCache(i, placement)}

\* The persisted accounts, in the order of their names' indexes.
SeqOfNames(k, hole, placement, c) ==
    LET S == PersistedIndexes(k, hole, placement)
        nth(j) == CHOOSE i \in S : Cardinality({o \in S : o < i}) = j - 1
    IN  [j \in 1..Cardinality(S) |->
            [name |-> CashName(nth(j)), company_ids |-> {c}, code |-> <<>>]]

CacheOfNames(k, hole, placement) ==
    {CashName(i) : i \in {j \in TakenIndexes(k, hole) : InCache(j, placement)}}

InitName ==
    /\ \E k \in TakenCounts : \E hole \in Holes(k) :
       \E placement \in Placements : \E c \in Companies :
          /\ accounts = SeqOfNames(k, hole, placement, c)
          /\ last = [op |-> "init", cache |-> CacheOfNames(k, hole, placement)]
    /\ tx = NoTx

\* One call of _search_new_account_name in the active company, with the
\* caller's cache or without one.
SearchName(start_name, withCache, company) ==
    /\ last.op = "init"
    /\ LET cacheArg == IF withCache THEN GivenCache(last.cache) ELSE NoCache
           res == _search_new_account_name(start_name, cacheArg, company, accounts)
       IN  last' = [op |-> "search", start_name |-> start_name,
                    cache |-> cacheArg, company |-> company,
                    error |-> res.error, name |-> res.name]
    /\ UNCHANGED <<accounts, tx>>

NextName ==
    \E start_name \in StartNames : \E withCache \in BOOLEAN :
    \E company \in Companies :
        SearchName(start_name, withCache, company)

SpecName == InitName /\ [][NextName]_vars

(***************************************************************************)
(* Claims about _search_new_account_name                                   *)
(***************************************************************************)
\* The ordered candidates start_name, start_name.copy, start_name.copy2,
\* ..., start_name.copy99.
OrderedCandidates(start_name) ==
    [i \in 1..100 |->
        IF i = 1 THEN start_name
        ELSE IF i = 2 THEN start_name \o ".copy"
        ELSE start_name \o ".copy" \o ToString(i - 1)]

Related(c, d) == c \in AncestorsOrSelf(d) \/ d \in AncestorsOrSelf(c)

\* No persisted account of that name in a parent or child company of c.
UnusedInScope(n, c) ==
    \A i \in 1..Len(accounts) :
        accounts[i].name = n =>
            \A d \in accounts[i].company_ids : ~Related(c, d)

FreeCandidates(start_name, cache, c) ==
    {i \in 1..100 :
        /\ OrderedCandidates(start_name)[i] \notin cache
        /\ UnusedInScope(OrderedCandidates(start_name)[i], c)}

Least(S) == CHOOSE i \in S : \A j \in S : i <= j

\* C3: with an explicitly passed cache, _search_new_account_name returns the
\* first available candidate of start_name, .copy, .copy2, ..., .copy99, and
\* raises the "cannot generate" user error exactly when none of the 100 is
\* available.
C3_FirstAvailableCandidate ==
    (last.op = "search" /\ last.cache.given) =>
        LET free == FreeCandidates(last.start_name, last.cache.names, last.company)
        IN  /\ (last.error # "") <=> (free = {})
            /\ free # {} =>
                 last.name = OrderedCandidates(last.start_name)[Least(free)]

\* The last candidate, .copy99, is returned when it alone is free.
C3_Witness ==
    /\ last.op = "search"
    /\ last.cache.given
    /\ last.error = ""
    /\ last.name = "Cash.copy99"
    /\ Len(accounts) > 0

\* The allocation is exhausted: all 100 candidates are used.
C3_WitnessExhausted ==
    /\ last.op = "search"
    /\ last.cache.given
    /\ last.error # ""

\* C10: called without a cache, _search_new_account_name never returns
\* start_name: it returns the first suffixed candidate that no persisted
\* account in scope uses (start_name.copy when none is used), and it leaves
\* the persisted accounts as they were.
C10_NoCacheNeverStartName ==
    [][(last'.op = "search" /\ ~last'.cache.given) =>
          /\ accounts' = accounts
          /\ last'.name # last'.start_name
          /\ LET free == FreeCandidates(last'.start_name, {last'.start_name},
                                        last'.company)
             IN  /\ (last'.error # "") <=> (free = {})
                 /\ free # {} =>
                      last'.name = OrderedCandidates(last'.start_name)[Least(free)]
          /\ UnusedInScope(last'.start_name \o ".copy", last'.company) =>
                 last'.name = last'.start_name \o ".copy"]_vars

\* No persisted account is called Cash, and the call without a cache still
\* returns Cash.copy.
C10_Witness ==
    /\ last.op = "search"
    /\ ~last.cache.given
    /\ last.start_name = "Cash"
    /\ \A i \in 1..Len(accounts) : accounts[i].name # "Cash"
    /\ last.name = "Cash.copy"

(***************************************************************************)
(* Claims about _ensure_name_is_unique                                     *)
(***************************************************************************)
\* Two accounts' company scopes overlap: they share a company, or a company
\* of one is an ancestor or descendant of a company of the other.
ScopesOverlap(a, b) ==
    \E c \in a.company_ids : \E d \in b.company_ids : Related(c, d)

\* Accounts i and j of the table db are a duplicate pair.
DuplicatePair(i, j, db) ==
    /\ i # j
    /\ db[i].name = db[j].name
    /\ ScopesOverlap(db[i], db[j])

AllNamesSet(db) == \A i \in 1..Len(db) : db[i].name # ""

\* C2: when all names are set, _ensure_name_is_unique raises whenever a
\* checked account has the name of another account (checked or persisted
\* outside the recordset) whose company scope overlaps its own, and does not
\* raise when every same-named pair has disjoint scopes.
C2_RaisesIffOverlappingDuplicate ==
    (last.op = "check" /\ AllNamesSet(accounts)) =>
        ((last.error # "") <=>
            \E i \in IdSet(last.ids) : \E j \in 1..Len(accounts) :
                DuplicatePair(i, j, accounts))

\* The names more than one checked account of the company has.
SharedByChecked(c, ids, db) ==
    {n \in Names :
        \E i \in IdSet(ids) : \E j \in IdSet(ids) :
            /\ i # j
            /\ db[i].name = n /\ db[j].name = n
            /\ c \in db[i].company_ids /\ c \in db[j].company_ids}

\* The names of the company's checked accounts that a persisted account
\* outside the recordset uses in a parent or child company.
UsedOutside(c, ids, db) ==
    {n \in Names :
        /\ \E i \in IdSet(ids) : db[i].name = n /\ c \in db[i].company_ids
        /\ \E j \in 1..Len(db) :
              /\ j \notin IdSet(ids)
              /\ db[j].name = n
              /\ \E d \in db[j].company_ids : Related(c, d)}

\* C8 as stated: the error raised for a company lists every name shared by
\* more than one checked account and every checked name a persisted account
\* outside the recordset uses in scope.
C8_ErrorListsBothKinds ==
    (last.op = "check" /\ last.error = DuplicateNames) =>
        last.names = SharedByChecked(last.company, last.ids, accounts)
                        \cup UsedOutside(last.company, last.ids, accounts)

\* C8 amended: the error raised for a company lists every name shared by
\* more than one checked account of the company when there is one, and
\* otherwise every checked name a persisted account outside the recordset
\* uses in scope.
C8_ErrorListsOneKind ==
    (last.op = "check" /\ last.error = DuplicateNames) =>
        /\ last.names # {}
        /\ last.names =
             IF SharedByChecked(last.company, last.ids, accounts) # {}
             THEN SharedByChecked(last.company, last.ids, accounts)
             ELSE UsedOutside(last.company, last.ids, accounts)

\* An error for a company where one name is shared inside the recordset and
\* another is used outside it: only the first is listed.
C8_Witness ==
    /\ last.op = "check"
    /\ last.error = DuplicateNames
    /\ SharedByChecked(last.company, last.ids, accounts) = {"Cash"}
    /\ UsedOutside(last.company, last.ids, accounts) = {"Bank"}
    /\ last.names = {"Cash"}

\* An error listing two names at once.
C8_WitnessTwoNames ==
    /\ last.op = "check"
    /\ last.error = DuplicateNames
    /\ last.names = {"Cash", "Bank"}

\* C9: if a checked account has an empty name in the context of a root
\* company of its company_ids, _ensure_name_is_unique raises the "name must
\* be set" error, also when a duplicate name would be reported.
C9_NameNotSetWins ==
    (/\ last.op = "check"
     /\ \E i \in IdSet(last.ids) :
           accounts[i].company_ids # {} /\ accounts[i].name = "") =>
        last.error = NameNotSet

\* A recordset with an unnamed account and two accounts sharing a name in a
\* company: the "name must be set" error is the one raised.
C9_Witness ==
    /\ last.op = "check"
    /\ last.error = NameNotSet
    /\ \E i \in IdSet(last.ids) : accounts[i].name = ""
    /\ \E i \in IdSet(last.ids) : \E j \in IdSet(last.ids) :
          accounts[i].name # "" /\ DuplicatePair(i, j, accounts)
             /\ accounts[i].company_ids = accounts[j].company_ids

(***************************************************************************)
(* Claims about create and write                                           *)
(***************************************************************************)
\* C1: after successful create calls and successful write calls made
\* without defer_account_code_checks, from an empty table, no two persisted
\* accounts with overlapping company scopes have the same name.
C1_NoDuplicateNames ==
    \A i \in 1..Len(accounts) : \A j \in 1..Len(accounts) :
        ~DuplicatePair(i, j, accounts)

\* The table the checks of the last write judged: the table itself after a
\* successful write, the written table after one that was rolled back.
JudgedByWrite ==
    IF last.error = "" THEN accounts
    ELSE written(last.ids, last.vals, accounts)

NameCheckRan == "name" \in RangeOf(last.checks)

WriteTouchesNames ==
    ~last.defer /\ ("name" \in DOMAIN last.vals \/ "company_ids" \in DOMAIN last.vals)

\* C6, the order of the steps: the name check runs only in a write without
\* the flag whose values include name or company_ids, and in every such
\* write that the code check lets through.
C6_NameCheckRunsWhenWanted ==
    last.op = "write" =>
        /\ NameCheckRan => WriteTouchesNames
        /\ (WriteTouchesNames /\ last.error \notin {CodeNotSet, DuplicateCodes})
              => NameCheckRan

\* C6: a write without the flag whose values include name or company_ids
\* runs the name check on the written values and raises if a written account
\* is then a duplicate of another account; any other write does not run it.
C6_WriteRaisesOnNewDuplicate ==
    last.op = "write" =>
        /\ C6_NameCheckRunsWhenWanted
        /\ (/\ WriteTouchesNames
            /\ \E i \in IdSet(last.ids) : \E j \in 1..Len(JudgedByWrite) :
                  DuplicatePair(i, j, JudgedByWrite))
              => last.error # ""

(***************************************************************************)
(* Claims about the codes create allocates                                 *)
(***************************************************************************)
HasPrefix(vals) == "prefix" \in DOMAIN vals /\ "code_digits" \in DOMAIN vals

RequestedCompanies(vals) ==
    IF "company_ids" \in DOMAIN vals THEN vals.company_ids ELSE <<>>

\* C4: within one create call, two value maps that request the same company
\* association and carry a prefix/digits instruction are given distinct
\* codes, adjacent in the batch or not.
C4_DistinctCodesInBatch ==
    (last.op = "create" /\ last.codes # <<>>) =>
        /\ Len(last.codes) = Len(last.vals_list)
        /\ \A i \in 1..Len(last.vals_list) : \A j \in 1..Len(last.vals_list) :
              (/\ i < j
               /\ HasPrefix(last.vals_list[i]) /\ HasPrefix(last.vals_list[j])
               /\ RequestedCompanies(last.vals_list[i])
                     = RequestedCompanies(last.vals_list[j]))
                 => last.codes[i] # last.codes[j]

\* Two prefix value maps of one company, separated by a value map of another
\* company, created in an empty table.
C4_Witness ==
    /\ last.op = "create"
    /\ last.error = ""
    /\ Len(last.vals_list) = 3
    /\ Len(accounts) = 3
    /\ \A k \in 1..3 : HasPrefix(last.vals_list[k])
    /\ RequestedCompanies(last.vals_list[1]) = RequestedCompanies(last.vals_list[3])
    /\ RequestedCompanies(last.vals_list[1]) # RequestedCompanies(last.vals_list[2])
    /\ last.codes[1] # last.codes[3]

\* The table before the last create call.
BeforeCreate == SubSeq(accounts, 1, Len(accounts) - Len(last.ids))

\* The company in which the first value map's code is allocated.
FirstCompany ==
    LET key == RequestedCompanies(last.vals_list[1])
    IN  IF key = <<>> \/ last.company \in RangeOf(key) THEN last.company
        ELSE key[1]

CodeUsedInScope(code, c, db) ==
    \E i \in 1..Len(db) :
        db[i].code = code /\ \E d \in db[i].company_ids : Related(c, d)

\* A create call whose first value map has prefix "10" and digits 4.
CreatesFromPrefix10 ==
    /\ last.op = "create"
    /\ HasPrefix(last.vals_list[1])
    /\ last.vals_list[1].prefix = <<1, 0>>
    /\ last.vals_list[1].code_digits = 4

\* C5 as stated: with prefix "10" and digits 4, an empty cache and no
\* account of code "1000" in scope, the account is given the code "1000".
C5_AllocatesCode1000 ==
    (CreatesFromPrefix10
        /\ ~CodeUsedInScope(<<1, 0, 0, 0>>, FirstCompany, BeforeCreate)) =>
        (last.codes # <<>> /\ last.codes[1] = <<1, 0, 0, 0>>)

\* C5 amended: with prefix "10" and digits 4, an empty cache and no account
\* of code "1001" in scope, the account is given the code "1001".
C5_AllocatesCode1001 ==
    (CreatesFromPrefix10
        /\ ~CodeUsedInScope(<<1, 0, 0, 1>>, FirstCompany, BeforeCreate)) =>
        (last.codes # <<>> /\ last.codes[1] = <<1, 0, 0, 1>>)

\* The account is created with the code "1001" next to an account of another
\* scope that has it too.
C5_Witness ==
    /\ CreatesFromPrefix10
    /\ last.error = ""
    /\ \E i \in 1..Len(BeforeCreate) : BeforeCreate[i].code = <<1, 0, 0, 1>>
    /\ ~CodeUsedInScope(<<1, 0, 0, 1>>, FirstCompany, BeforeCreate)
    /\ accounts[last.ids[1]].code = <<1, 0, 0, 1>>

(***************************************************************************)
(* Claim about concurrent create calls                                     *)
(***************************************************************************)
\* Committed transactions t and u created accounts that are a duplicate pair.
CreatedDuplicates(t, u) ==
    /\ t # u
    /\ tx[t].pc = "committed" /\ tx[u].pc = "committed"
    /\ \E i \in RangeOf(tx[t].ids) : \E j \in RangeOf(tx[u].ids) :
          DuplicatePair(i, j, accounts)

\* C7: a transaction whose checks passed can always commit (no lock, retry
\* or constraint stands in its way), and two transactions commit accounts of
\* the same name in overlapping scopes only when each ran its checks before
\* the other committed.
C7_CheckThenActRace ==
    /\ \A t \in Txs : tx[t].pc = "checked" => ENABLED TxCommit(t)
    /\ \A t \in Txs : \A u \in Txs :
          CreatedDuplicates(t, u) => (u \notin tx[t].seen /\ t \notin tx[u].seen)

\* Both transactions passed the checks and committed, and the table holds
\* their two accounts named Cash in company 1.
C7_Witness ==
    /\ CreatedDuplicates(1, 2)
    /\ \E i \in RangeOf(tx[1].ids) : \E j \in RangeOf(tx[2].ids) :
          /\ accounts[i].name = "Cash" /\ accounts[j].name = "Cash"
          /\ accounts[i].company_ids = {1} /\ accounts[j].company_ids = {1}

====
